---- MODULE Spec2Model ----
(***************************************************************************)
(* Model of gemini/cosimulation/site_power_controller_federate.py:         *)
(* run_spm_federate, the time-stepped loop of one site-power-controller    *)
(* federate.  One action per step of the loop; the controllers            *)
(* (site_power_controller_utils.DefaultSPMC / RideHailSPMC) are modelled   *)
(* from their documented contract: run, run_as_thread and                  *)
(* get_output_from_latest_run.                                             *)
(***************************************************************************)
EXTENDS Integers, Sequences, FiniteSets, TLC

VARIABLES
    pc,                     \* position of the federate's thread in run_spm_federate
    t,                      \* loop variable of "for t in range(...)"
    requested_time,         \* argument of the sync_time call in progress
    granted_time,           \* local of sync_time
    received_message,       \* string read from the bus input
    charging_events_json,   \* result of parse_json
    groups_rest,            \* records the groupby iterator has not consumed yet
    processed_side_ids,     \* sites dispatched in this iteration, in dispatch order
    agg_rest,               \* sites the aggregation loop has still to read
    power_commands_list,    \* commands collected in this iteration
    default_spm_c_dict,     \* site id -> DefaultSPMC instance
    ride_hail_spm_c_dict,   \* site id -> RideHailSPMC instance
    threads,                \* units started by run_as_thread and not finished yet
    published,              \* strings published on the bus in this iteration
    err_log,                \* print_err lines of this iteration
    run_calls,              \* run / run_as_thread calls made in this iteration
    out_csv,                \* lines of the file out.csv
    exc,                    \* exception that escaped run_spm_federate, or "none"
    multi_threaded_run      \* parameter of run_spm_federate

vars == <<pc, t, requested_time, granted_time, received_message,
          charging_events_json, groups_rest, processed_side_ids, agg_rest,
          power_commands_list, default_spm_c_dict, ride_hail_spm_c_dict,
          threads, published, err_log, run_calls, out_csv, exc,
          multi_threaded_run>>

(***************************************************************************)
(* Bounds of the model.                                                    *)
(***************************************************************************)
MaxTicks == 2       \* iterations of the execution loop
MaxBatch == 3       \* records in one inbound JSON array
MaxLag == 2         \* how far below the requested time the bus may grant

(***************************************************************************)
(* Parameters of the run.                                                  *)
(***************************************************************************)
time_bin_in_seconds == 60
simulated_day_in_seconds == (MaxTicks + 1) * time_bin_in_seconds
depot_prefix == <<"d", "e", "p", "o", "t">>

(***************************************************************************)
(* Site identifiers are strings, kept as sequences of characters so that   *)
(* lower() and startswith() are computed.                                  *)
(***************************************************************************)
S1 == <<"S", "1">>
Depot1 == <<"d", "e", "p", "o", "t", "-", "1">>
Sites == {S1, Depot1}

\* identifiers that need lower() and that hold the prefix past their start
XDepot == <<"x", "d", "e", "p", "o", "t">>
DepotUpper == <<"D", "e", "p", "o", "t", "-", "1">>
OtherSites == {XDepot, DepotUpper}
Vehicles == {"V1"}

RECURSIVE Cat(_)
Cat(s) == IF s = <<>> THEN "" ELSE Head(s) \o Cat(Tail(s))

LowerChar(c) ==
    CASE c = "S" -> "s"
      [] c = "D" -> "d"
      [] c = "E" -> "e"
      [] c = "P" -> "p"
      [] c = "O" -> "o"
      [] c = "T" -> "t"
      [] OTHER -> c

Lower(s) == [i \in DOMAIN s |-> LowerChar(s[i])]

StartsWith(s, p) == Len(s) >= Len(p) /\ SubSeq(s, 1, Len(p)) = p

\* the test with lower() left out
IsDepotNoLower(site_id_str) == StartsWith(site_id_str, depot_prefix)

\* "not site_id_str.lower().startswith(depot_prefix)" selects the default dict
IsDepot(site_id_str) == StartsWith(Lower(site_id_str), depot_prefix)

(***************************************************************************)
(* Inbound messages.  A raw message is blank (empty or whitespace only),   *)
(* text that is not JSON, or the text of a JSON value.  A parsed value     *)
(* carries its Python type; a str or a list carries its items.             *)
(***************************************************************************)
EventsOf(sites) ==
    [siteId : sites, vehicleId : Vehicles]
        \cup [siteId : sites]
        \cup [vehicleId : Vehicles]

Events == EventsOf(Sites)

SeqsUpTo(S, n) == UNION {[1..k -> S] : k \in 0..n}

JsonValuesOf(events) ==
    {[type |-> "dict"], [type |-> "int"], [type |-> "NoneType"], [type |-> "bool"]}
        \cup {[type |-> "str", items |-> <<>>],
              [type |-> "str", items |-> <<[chr |-> "a"], [chr |-> "b"]>>]}
        \cup {[type |-> "list", items |-> b] : b \in SeqsUpTo(events, MaxBatch)}

JsonValues == JsonValuesOf(Events)

MessagesOf(values) ==
    {[raw |-> "empty"], [raw |-> "whitespace"], [raw |-> "not json"]}
        \cup {[raw |-> "json", value |-> v] : v \in values}

Messages == MessagesOf(JsonValues)

\* the messages of a run with the one site S1
OneSiteMessages == MessagesOf(JsonValuesOf(EventsOf({S1})))

\* the messages of a run whose sites are OtherSites
OtherMessages == MessagesOf(JsonValuesOf(EventsOf(OtherSites)))

NoMessage == [raw |-> "empty"]
NoJson == [type |-> "NoneType"]

\* the blank test with strip() left out: bool(str(received_message))
IsNonBlankNoStrip(m) == m.raw # "empty"

\* bool(str(received_message).strip())
IsNonBlank(m) == m.raw \notin {"empty", "whitespace"}

\* parse_json with the print_err call of its except branch left out
ParseJsonSilent(m) ==
    IF m.raw = "json"
    THEN [value |-> m.value, errors |-> <<>>]
    ELSE [value |-> [type |-> "str", items |-> <<>>], errors |-> <<>>]

\* parse_json: the parsed value and the print_err lines it produced
ParseJson(m) ==
    IF m.raw = "json"
    THEN [value |-> m.value, errors |-> <<>>]
    ELSE [value |-> [type |-> "str", items |-> <<>>],
          errors |-> <<"Message from BEAM is an incorrect JSON">>]

\* isinstance(x, collections.abc.Sequence)
IsSequence(v) == v.type \in {"str", "list"}

\* key_func raises on a str item (TypeError) and on a dict without siteId (KeyError)
KeyFuncRaises(k) == "siteId" \notin DOMAIN k

KeyFuncError(k) == IF "chr" \in DOMAIN k THEN "TypeError" ELSE "KeyError"

key_func(k) == k.siteId

\* length of the group itertools.groupby yields at the head of items:
\* the longest prefix whose records have the key of the first one
RECURSIVE GroupLen(_, _)
GroupLen(items, key) ==
    IF items = <<>> \/ KeyFuncRaises(Head(items)) THEN 0
    ELSE IF key_func(Head(items)) # key THEN 0
    ELSE 1 + GroupLen(Tail(items), key)

\* filter(lambda charging_event: 'vehicleId' in charging_event, charging_events)
HasVehicleId(charging_event) == "vehicleId" \in DOMAIN charging_event

FilterEvents(charging_events) == SelectSeq(charging_events, HasVehicleId)

(***************************************************************************)
(* Controllers (contract of DefaultSPMC / RideHailSPMC).                   *)
(***************************************************************************)
NewController == [output |-> <<>>]

ControllerRun(c, site_id_str, current_t) ==
    [c EXCEPT !.output = <<[siteId |-> site_id_str, t |-> current_t]>>]

GetOutputFromLatestRun(c) == c.output

EmptyDict == [s \in {} |-> NewController]

NoThreads == [u \in {} |-> 0]

\* threads holds, for each unit, how many of it are running: two calls of
\* run_as_thread with the same site and tick start two units
BagAdd(bag, u) ==
    [x \in DOMAIN bag \cup {u} |->
        IF x = u THEN (IF u \in DOMAIN bag THEN bag[u] + 1 ELSE 1) ELSE bag[x]]

BagRemove(bag, u) ==
    IF bag[u] > 1
    THEN [bag EXCEPT ![u] = @ - 1]
    ELSE [x \in DOMAIN bag \ {u} |-> bag[x]]

DictPut(d, k, v) == [x \in DOMAIN d \cup {k} |-> IF x = k THEN v ELSE d[x]]

\* init_spm_controllers without its "not in" test
InitDictAlways(d, site_id_str) == DictPut(d, site_id_str, NewController)

\* init_spm_controllers on one dict
InitDict(d, site_id_str) ==
    IF site_id_str \notin DOMAIN d THEN DictPut(d, site_id_str, NewController) ELSE d

\* get_power_commands
GetPowerCommands(site_id_str) ==
    IF ~IsDepot(site_id_str)
    THEN GetOutputFromLatestRun(default_spm_c_dict[site_id_str])
    ELSE GetOutputFromLatestRun(ride_hail_spm_c_dict[site_id_str])

(***************************************************************************)
(* json.dumps(power_commands_list, separators=(',', ':'))                  *)
(***************************************************************************)
CommandText(c) ==
    "{\"siteId\":\"" \o Cat(c.siteId) \o "\",\"t\":" \o ToString(c.t) \o "}"

RECURSIVE JoinCommands(_)
JoinCommands(cmds) ==
    IF cmds = <<>> THEN ""
    ELSE IF Len(cmds) = 1 THEN CommandText(Head(cmds))
    ELSE CommandText(Head(cmds)) \o "," \o JoinCommands(Tail(cmds))

JsonDumps(cmds) == "[" \o JoinCommands(cmds) \o "]"

(***************************************************************************)
(* pd.DataFrame(power_commands_list).to_csv('out.csv', mode='a',           *)
(* index=False, header=False): one line per command, no header line.       *)
(***************************************************************************)
CsvRow(c) == [kind |-> "row", text |-> Cat(c.siteId) \o "," \o ToString(c.t)]

\* to_csv with pandas' default header=True: the column names, then the rows
ToCsvWithHeader(cmds) ==
    <<[kind |-> "header", text |-> "siteId,t"]>> \o [i \in DOMAIN cmds |-> CsvRow(cmds[i])]

ToCsv(cmds) == [i \in DOMAIN cmds |-> CsvRow(cmds[i])]

(***************************************************************************)
(* The bus: helicsFederateRequestTime grants a time below, at or above the *)
(* requested one, never a negative one.                                    *)
(***************************************************************************)
Grants(requested) ==
    {g \in (requested - MaxLag)..(requested + MaxLag) : g >= 0}

\* the loop test of sync_time off by one
SyncTimeLoopsOffByOne(granted, requested) == granted < requested - 1

\* the loop test waiting for the requested time itself
SyncTimeLoopsUntilEqual(granted, requested) == granted # requested

\* "while granted_time < requested_time"
SyncTimeLoops(granted, requested) == granted < requested

\* the range with its stop taken to be simulated_day_in_seconds
InRangeOfDay(tick) == tick < simulated_day_in_seconds

\* range(0, simulated_day_in_seconds - time_bin_in_seconds, time_bin_in_seconds)
InRange(tick) == tick < simulated_day_in_seconds - time_bin_in_seconds

Init ==
    /\ pc = "sync_t"
    /\ t = 0
    /\ requested_time = 0
    /\ granted_time = -1
    /\ received_message = NoMessage
    /\ charging_events_json = NoJson
    /\ groups_rest = <<>>
    /\ processed_side_ids = <<>>
    /\ agg_rest = <<>>
    /\ power_commands_list = <<>>
    /\ default_spm_c_dict = EmptyDict
    /\ ride_hail_spm_c_dict = EmptyDict
    /\ threads = NoThreads
    /\ published = <<>>
    /\ err_log = <<>>
    /\ run_calls = <<>>
    /\ out_csv = <<>>
    /\ exc = "none"
    /\ multi_threaded_run \in BOOLEAN

(***************************************************************************)
(* sync_time(requested_time): one pass of the while loop, and its exit.    *)
(***************************************************************************)
SyncTimeRequest ==
    /\ pc \in {"sync_t", "sync_t1"}
    /\ SyncTimeLoops(granted_time, requested_time)
    /\ \E g \in Grants(requested_time) : granted_time' = g
    /\ UNCHANGED <<pc, t, requested_time, received_message, charging_events_json,
                   groups_rest, processed_side_ids, agg_rest, power_commands_list,
                   default_spm_c_dict, ride_hail_spm_c_dict, threads, published,
                   err_log, run_calls, exc, multi_threaded_run,
                   out_csv>>

\* sync_time(t) returns, and its local granted_time is gone; the loop body
\* goes on to read the input
SyncTimeReturn ==
    /\ pc = "sync_t"
    /\ ~SyncTimeLoops(granted_time, requested_time)
    /\ pc' = "receive"
    /\ granted_time' = -1
    /\ UNCHANGED <<t, requested_time, received_message, charging_events_json,
                   groups_rest, processed_side_ids, agg_rest, power_commands_list,
                   default_spm_c_dict, ride_hail_spm_c_dict, threads, published,
                   err_log, run_calls, exc, multi_threaded_run, out_csv>>

\* sync_time(t + 1) returns; the for loop takes its next value or ends.
\* The locals of the finished iteration are dead and are cleared here.
LoopNext ==
    /\ pc = "sync_t1"
    /\ ~SyncTimeLoops(granted_time, requested_time)
    /\ IF InRange(t + time_bin_in_seconds)
       THEN /\ t' = t + time_bin_in_seconds
            /\ pc' = "sync_t"
            /\ requested_time' = t + time_bin_in_seconds
       ELSE /\ pc' = "disconnect"
            /\ UNCHANGED <<t, requested_time>>
    /\ granted_time' = -1
    /\ received_message' = NoMessage
    /\ charging_events_json' = NoJson
    /\ groups_rest' = <<>>
    /\ processed_side_ids' = <<>>
    /\ agg_rest' = <<>>
    /\ power_commands_list' = <<>>
    /\ published' = <<>>
    /\ err_log' = <<>>
    /\ run_calls' = <<>>
    /\ UNCHANGED <<default_spm_c_dict, ride_hail_spm_c_dict, threads, exc,
                   multi_threaded_run, out_csv>>

(***************************************************************************)
(* Lines 90-93: the inbound string of the tick is read.                    *)
(***************************************************************************)
ReceiveFrom(messages) ==
    /\ pc = "receive"
    /\ \E m \in messages : received_message' = m
    /\ power_commands_list' = <<>>
    /\ pc' = "handle"
    /\ UNCHANGED <<t, requested_time, granted_time, charging_events_json,
                   groups_rest, processed_side_ids, agg_rest, default_spm_c_dict,
                   ride_hail_spm_c_dict, threads, published, err_log, run_calls,
                   exc, multi_threaded_run,
                   out_csv>>

Receive == ReceiveFrom(Messages)

ReceiveOtherSites == ReceiveFrom(OtherMessages)

ReceiveOneSite == ReceiveFrom(OneSiteMessages)

(***************************************************************************)
(* Lines 94-100 and 116-121: blank test, parse_json, Sequence test, length *)
(* test.                                                                   *)
(***************************************************************************)
NotParsedError == "It was not able to parse JSON message from BEAM"

HandleMessage ==
    /\ pc = "handle"
    /\ IF IsNonBlank(received_message)
       THEN LET parsed == ParseJson(received_message) IN
            /\ charging_events_json' = parsed.value
            /\ IF ~IsSequence(parsed.value)
               THEN /\ err_log' = err_log \o parsed.errors \o <<NotParsedError>>
                    /\ pc' = "publish"
                    /\ UNCHANGED <<groups_rest, processed_side_ids>>
               ELSE /\ err_log' = err_log \o parsed.errors
                    /\ IF Len(parsed.value.items) > 0
                       THEN /\ processed_side_ids' = <<>>
                            /\ groups_rest' = parsed.value.items
                            /\ pc' = "route"
                       ELSE /\ pc' = "publish"
                            /\ UNCHANGED <<groups_rest, processed_side_ids>>
       ELSE /\ pc' = "publish"
            /\ UNCHANGED <<charging_events_json, groups_rest, err_log,
                           processed_side_ids>>
    /\ UNCHANGED <<t, requested_time, granted_time, received_message, agg_rest,
                   power_commands_list, default_spm_c_dict, ride_hail_spm_c_dict,
                   threads, published, run_calls, exc, multi_threaded_run,
                   out_csv>>

(***************************************************************************)
(* Lines 101-113: one pass of "for site_id, charging_events in groupby".   *)
(* groupby is lazy: key_func is applied to the first record when the loop  *)
(* starts, and to the record after a group while list(filter(...)) drains  *)
(* the group, that is after init_spm_controllers and before the run.       *)
(***************************************************************************)
CurSite == key_func(Head(groups_rest))

CurLen == GroupLen(groups_rest, CurSite)

CurGroup == SubSeq(groups_rest, 1, CurLen)

CurAfter == SubSeq(groups_rest, CurLen + 1, Len(groups_rest))

CurFiltered == FilterEvents(CurGroup)

\* init_spm_controllers(site_id)
InitSpmControllers(site_id_str) ==
    /\ default_spm_c_dict' = InitDict(default_spm_c_dict, site_id_str)
    /\ ride_hail_spm_c_dict' = InitDict(ride_hail_spm_c_dict, site_id_str)

\* the for loop at line 101 goes on with the next group, or ends and the
\* loop at line 114 starts over processed_side_ids
RouteNext(processed) ==
    /\ groups_rest' = CurAfter
    /\ processed_side_ids' = processed
    /\ IF CurAfter # <<>>
       THEN pc' = "route" /\ UNCHANGED agg_rest
       ELSE IF processed # <<>>
       THEN pc' = "aggregate" /\ agg_rest' = processed
       ELSE pc' = "publish" /\ UNCHANGED agg_rest

Raise(kind) ==
    /\ pc' = "crashed"
    /\ exc' = kind

RunCall(site_id_str, events) ==
    [siteId |-> site_id_str,
     variant |-> IF IsDepot(site_id_str) THEN "ride_hail" ELSE "default",
     t |-> t,
     events |-> events]

\* key_func raises on the first record of the batch
GroupFirstKeyRaises ==
    /\ pc = "route"
    /\ KeyFuncRaises(Head(groups_rest))
    /\ Raise(KeyFuncError(Head(groups_rest)))
    /\ UNCHANGED <<t, requested_time, granted_time, received_message,
                   charging_events_json, groups_rest, processed_side_ids, agg_rest,
                   power_commands_list, default_spm_c_dict, ride_hail_spm_c_dict,
                   threads, published, err_log, run_calls, multi_threaded_run,
                   out_csv>>

\* key_func raises on the record that follows the group
GroupNextKeyRaises ==
    /\ pc = "route"
    /\ ~KeyFuncRaises(Head(groups_rest))
    /\ CurAfter # <<>> /\ KeyFuncRaises(Head(CurAfter))
    /\ InitSpmControllers(CurSite)
    /\ Raise(KeyFuncError(Head(CurAfter)))
    /\ UNCHANGED <<t, requested_time, granted_time, received_message,
                   charging_events_json, groups_rest, processed_side_ids, agg_rest,
                   power_commands_list, threads, published, err_log, run_calls,
                   multi_threaded_run,
                   out_csv>>

GroupReadable ==
    /\ pc = "route"
    /\ ~KeyFuncRaises(Head(groups_rest))
    /\ CurAfter # <<>> => ~KeyFuncRaises(Head(CurAfter))

\* no record of the group has a vehicleId: the site is not dispatched
GroupSkipped ==
    /\ GroupReadable
    /\ Len(CurFiltered) = 0
    /\ InitSpmControllers(CurSite)
    /\ RouteNext(processed_side_ids)
    /\ UNCHANGED <<t, requested_time, granted_time, received_message,
                   charging_events_json, power_commands_list, threads, published,
                   err_log, run_calls, exc, multi_threaded_run,
                   out_csv>>

\* run_spm_controllers: the controller's run returns
RunSequential ==
    /\ GroupReadable
    /\ Len(CurFiltered) > 0
    /\ ~multi_threaded_run
    /\ IF ~IsDepot(CurSite)
       THEN /\ default_spm_c_dict' =
                  [InitDict(default_spm_c_dict, CurSite) EXCEPT
                      ![CurSite] = ControllerRun(@, CurSite, t)]
            /\ ride_hail_spm_c_dict' = InitDict(ride_hail_spm_c_dict, CurSite)
       ELSE /\ ride_hail_spm_c_dict' =
                  [InitDict(ride_hail_spm_c_dict, CurSite) EXCEPT
                      ![CurSite] = ControllerRun(@, CurSite, t)]
            /\ default_spm_c_dict' = InitDict(default_spm_c_dict, CurSite)
    /\ run_calls' = Append(run_calls, RunCall(CurSite, CurFiltered))
    /\ RouteNext(Append(processed_side_ids, CurSite))
    /\ UNCHANGED <<t, requested_time, granted_time, received_message,
                   charging_events_json, power_commands_list, threads, published,
                   err_log, exc, multi_threaded_run,
                   out_csv>>

\* run_spm_controllers: the controller's run raises; nothing catches it
RunSequentialRaises ==
    /\ GroupReadable
    /\ Len(CurFiltered) > 0
    /\ ~multi_threaded_run
    /\ InitSpmControllers(CurSite)
    /\ processed_side_ids' = Append(processed_side_ids, CurSite)
    /\ run_calls' = Append(run_calls, RunCall(CurSite, CurFiltered))
    /\ Raise("ControllerFailure")
    /\ UNCHANGED <<t, requested_time, granted_time, received_message,
                   charging_events_json, groups_rest, agg_rest, power_commands_list,
                   threads, published, err_log, multi_threaded_run,
                   out_csv>>

\* run_multi_threaded_spm_controllers: run_as_thread starts a unit and returns
RunAsThread ==
    /\ GroupReadable
    /\ Len(CurFiltered) > 0
    /\ multi_threaded_run
    /\ InitSpmControllers(CurSite)
    /\ threads' = BagAdd(threads, [siteId |-> CurSite,
                                   variant |-> RunCall(CurSite, CurFiltered).variant,
                                   t |-> t])
    /\ run_calls' = Append(run_calls, RunCall(CurSite, CurFiltered))
    /\ RouteNext(Append(processed_side_ids, CurSite))
    /\ UNCHANGED <<t, requested_time, granted_time, received_message,
                   charging_events_json, power_commands_list, published, err_log,
                   exc, multi_threaded_run,
                   out_csv>>

(***************************************************************************)
(* A unit started by run_as_thread runs the controller and ends.           *)
(***************************************************************************)
UnitCompletes ==
    /\ \E u \in DOMAIN threads :
          /\ threads' = BagRemove(threads, u)
          /\ IF u.variant = "default"
             THEN /\ default_spm_c_dict' =
                        [default_spm_c_dict EXCEPT
                            ![u.siteId] = ControllerRun(@, u.siteId, u.t)]
                  /\ UNCHANGED ride_hail_spm_c_dict
             ELSE /\ ride_hail_spm_c_dict' =
                        [ride_hail_spm_c_dict EXCEPT
                            ![u.siteId] = ControllerRun(@, u.siteId, u.t)]
                  /\ UNCHANGED default_spm_c_dict
    /\ UNCHANGED <<pc, t, requested_time, granted_time, received_message,
                   charging_events_json, groups_rest, processed_side_ids, agg_rest,
                   power_commands_list, published, err_log, run_calls, exc,
                   multi_threaded_run,
                   out_csv>>

\* the controller's run raises inside the unit: the unit's thread ends
UnitRaises ==
    /\ \E u \in DOMAIN threads : threads' = BagRemove(threads, u)
    /\ UNCHANGED <<pc, t, requested_time, granted_time, received_message,
                   charging_events_json, groups_rest, processed_side_ids, agg_rest,
                   power_commands_list, default_spm_c_dict, ride_hail_spm_c_dict,
                   published, err_log, run_calls, exc, multi_threaded_run,
                   out_csv>>

(***************************************************************************)
(* Lines 114-115: one pass of "for site_id in processed_side_ids".         *)
(***************************************************************************)
Aggregate ==
    /\ pc = "aggregate"
    /\ power_commands_list' = power_commands_list \o GetPowerCommands(Head(agg_rest))
    /\ agg_rest' = Tail(agg_rest)
    /\ pc' = IF Tail(agg_rest) = <<>> THEN "publish" ELSE "aggregate"
    /\ UNCHANGED <<t, requested_time, granted_time, received_message,
                   charging_events_json, groups_rest, processed_side_ids,
                   default_spm_c_dict, ride_hail_spm_c_dict, threads, published,
                   err_log, run_calls, exc, multi_threaded_run,
                   out_csv>>

(***************************************************************************)
(* Lines 122-125: publish the commands, then call sync_time(t + 1).        *)
(***************************************************************************)
Publish ==
    /\ pc = "publish"
    /\ published' = Append(published, JsonDumps(power_commands_list))
    /\ pc' = "sync_t1"
    /\ requested_time' = t + 1
    /\ granted_time' = -1
    /\ out_csv' = IF Len(power_commands_list) > 0
                  THEN out_csv \o ToCsv(power_commands_list)
                  ELSE out_csv
    /\ UNCHANGED <<t, received_message, charging_events_json, groups_rest,
                   processed_side_ids, agg_rest, power_commands_list,
                   default_spm_c_dict, ride_hail_spm_c_dict, threads, err_log,
                   run_calls, exc, multi_threaded_run>>

(***************************************************************************)
(* Lines 130-136: helicsFederateDisconnect, helicsFederateFree.            *)
(***************************************************************************)
Disconnect ==
    /\ pc = "disconnect"
    /\ pc' = "free"
    /\ UNCHANGED <<t, requested_time, granted_time, received_message,
                   charging_events_json, groups_rest, processed_side_ids, agg_rest,
                   power_commands_list, default_spm_c_dict, ride_hail_spm_c_dict,
                   threads, published, err_log, run_calls, exc, multi_threaded_run,
                   out_csv>>

Free ==
    /\ pc = "free"
    /\ pc' = "finished"
    /\ UNCHANGED <<t, requested_time, granted_time, received_message,
                   charging_events_json, groups_rest, processed_side_ids, agg_rest,
                   power_commands_list, default_spm_c_dict, ride_hail_spm_c_dict,
                   threads, published, err_log, run_calls, exc, multi_threaded_run,
                   out_csv>>

Next ==
    \/ SyncTimeRequest
    \/ SyncTimeReturn
    \/ LoopNext
    \/ Receive
    \/ HandleMessage
    \/ GroupFirstKeyRaises
    \/ GroupNextKeyRaises
    \/ GroupSkipped
    \/ RunSequential
    \/ RunSequentialRaises
    \/ RunAsThread
    \/ UnitCompletes
    \/ UnitRaises
    \/ Aggregate
    \/ Publish
    \/ Disconnect
    \/ Free

Spec == Init /\ [][Next]_vars

(***************************************************************************)
(* The run as __main__ starts it: run_spm_federate(fed, time_bin,          *)
(* simulated_day, False).  No unit is ever started.                        *)
(***************************************************************************)
InitSequential == Init /\ ~multi_threaded_run

NextSequential ==
    \/ SyncTimeRequest
    \/ SyncTimeReturn
    \/ LoopNext
    \/ Receive
    \/ HandleMessage
    \/ GroupFirstKeyRaises
    \/ GroupNextKeyRaises
    \/ GroupSkipped
    \/ RunSequential
    \/ RunSequentialRaises
    \/ Aggregate
    \/ Publish
    \/ Disconnect
    \/ Free

SpecSequential == InitSequential /\ [][NextSequential]_vars

(***************************************************************************)
(* The thread of the federate, started at line 187 and joined at line 189, *)
(* keeps running, and every call of helicsFederateRequestTime returns.     *)
(* What the call returns is the bus's to decide.  The messages are those   *)
(* of a run with one site.                                                 *)
(***************************************************************************)
NextOneSite ==
    \/ SyncTimeRequest
    \/ SyncTimeReturn
    \/ LoopNext
    \/ ReceiveOneSite
    \/ HandleMessage
    \/ GroupFirstKeyRaises
    \/ GroupNextKeyRaises
    \/ GroupSkipped
    \/ RunSequential
    \/ RunSequentialRaises
    \/ Aggregate
    \/ Publish
    \/ Disconnect
    \/ Free

SpecFairThread ==
    InitSequential /\ [][NextOneSite]_vars /\ WF_vars(NextOneSite)

\* helicsFederateRequestTime returns a time that ends the loop of sync_time
GrantedInTime == SyncTimeRequest /\ granted_time' >= requested_time

\* a bus that grants every requested time in the end
SpecFairBus == SpecFairThread /\ WF_vars(GrantedInTime)

(***************************************************************************)
(* The same run with the sites of the inbound messages being OtherSites.   *)
(***************************************************************************)
NextOtherSites ==
    \/ SyncTimeRequest
    \/ SyncTimeReturn
    \/ LoopNext
    \/ ReceiveOtherSites
    \/ HandleMessage
    \/ GroupFirstKeyRaises
    \/ GroupNextKeyRaises
    \/ GroupSkipped
    \/ RunSequential
    \/ RunSequentialRaises
    \/ Aggregate
    \/ Publish
    \/ Disconnect
    \/ Free

SpecOtherSites == InitSequential /\ [][NextOtherSites]_vars

(***************************************************************************)
(* Notions the properties below are stated with.                           *)
(***************************************************************************)
IsBatch == charging_events_json.type = "list"

Batch == charging_events_json.items

\* the for loop at line 101 has ended in this iteration
Routed == IsBatch /\ pc \in {"aggregate", "publish", "sync_t1"}

\* the events of site s that carry a vehicleId, in arrival order
EventsOfSite(items, s) ==
    LET Keep(e) == "siteId" \in DOMAIN e /\ e.siteId = s /\ HasVehicleId(e)
    IN  SelectSeq(items, Keep)

CallsOfSite(s) == {i \in DOMAIN run_calls : run_calls[i].siteId = s}

\* the sites that have a vehicleId-bearing event, in the order first seen
RECURSIVE FirstSeen(_, _)
FirstSeen(items, seen) ==
    IF items = <<>> THEN <<>>
    ELSE LET e == Head(items) IN
         IF "siteId" \in DOMAIN e /\ HasVehicleId(e) /\ e.siteId \notin seen
         THEN <<e.siteId>> \o FirstSeen(Tail(items), seen \cup {e.siteId})
         ELSE FirstSeen(Tail(items), seen)

RECURSIVE ConcatOutputs(_)
ConcatOutputs(sites) ==
    IF sites = <<>> THEN <<>>
    ELSE GetPowerCommands(Head(sites)) \o ConcatOutputs(Tail(sites))

\* C1: once the routing of a tick's batch has ended, every site of the batch
\* with vehicleId-bearing events has been run exactly once, with all of those
\* events, and no other site has been run.
C1_RoutingMergesSite ==
    Routed =>
        \A s \in Sites :
            LET evs == EventsOfSite(Batch, s) IN
            IF evs = <<>>
            THEN CallsOfSite(s) = {}
            ELSE /\ Cardinality(CallsOfSite(s)) = 1
                 /\ \A i \in CallsOfSite(s) : run_calls[i].events = evs

\* C2: the string published for a batch is the encoding of the latest outputs
\* of the sites with vehicleId-bearing events, each taken once, in first-seen
\* order.
C2_PublishedIsFirstSeenConcat ==
    (IsBatch /\ pc = "sync_t1") =>
        published = <<JsonDumps(ConcatOutputs(FirstSeen(Batch, {})))>>

(***************************************************************************)
(* What the sequential mode publishes for a batch at a tick when every     *)
(* controller's run returns: lines 100-122 with multi_threaded_run false.  *)
(* Each group with a vehicleId-bearing event is run and then read once.    *)
(***************************************************************************)
RECURSIVE SequentialSites(_)
SequentialSites(items) ==
    IF items = <<>> THEN <<>>
    ELSE LET site == key_func(Head(items))
             n == GroupLen(items, site)
             rest == SubSeq(items, n + 1, Len(items))
         IN  IF Len(FilterEvents(SubSeq(items, 1, n))) > 0
             THEN <<site>> \o SequentialSites(rest)
             ELSE SequentialSites(rest)

SequentialReply(items, tick) ==
    LET sites == SequentialSites(items) IN
    JsonDumps([i \in DOMAIN sites |->
                  GetOutputFromLatestRun(ControllerRun(NewController, sites[i], tick))[1]])

\* a valid batch: an array whose records all carry a siteId
ValidBatch == IsBatch /\ \A i \in DOMAIN Batch : ~KeyFuncRaises(Batch[i])

\* the sequential action path publishes SequentialReply
SequentialReplyIsPublished ==
    (~multi_threaded_run /\ ValidBatch /\ pc = "sync_t1") =>
        published = <<SequentialReply(Batch, t)>>

\* C3: for a valid non-empty batch the concurrent mode publishes the string
\* the sequential mode publishes for the same batch and tick.
C3_ModesPublishSameString ==
    (multi_threaded_run /\ ValidBatch /\ Len(Batch) > 0 /\ pc = "sync_t1") =>
        published = <<SequentialReply(Batch, t)>>

\* C4: a step of the aggregation loop (a call of get_output_from_latest_run)
\* is taken only when no unit started in the current tick is still running.
C4_BarrierBeforeAggregation ==
    [][(pc = "aggregate" /\ agg_rest' # agg_rest) =>
          \A u \in DOMAIN threads : u.t # t]_vars

\* C5: in concurrent mode no two run_as_thread calls of one tick are for the
\* same site, and no two running units of the tick are on the same site.
C5_OneUnitPerSite ==
    multi_threaded_run =>
        /\ \A i, j \in DOMAIN run_calls :
              i # j => run_calls[i].siteId # run_calls[j].siteId
        /\ \A u \in DOMAIN threads : u.t = t => threads[u] = 1

\* C6: every iteration publishes exactly one string, after the read and
\* before sync_time(t + 1); an iteration never ends without its reply; a
\* blank message or an empty array is answered by "[]".
C6_OneReplyPerTick ==
    /\ pc \in {"sync_t", "receive", "handle", "route", "aggregate", "publish"}
          => published = <<>>
    /\ pc = "sync_t1" => Len(published) = 1
    /\ pc = "crashed" => Len(published) = 1
    /\ (pc = "sync_t1" /\ (~IsNonBlank(received_message)
                            \/ (IsBatch /\ Batch = <<>>)))
          => published = <<"[]">>

InSyncTime == pc \in {"sync_t", "sync_t1"}

\* C7: sync_time is called with t before the read and with t + 1 after the
\* publish; it returns only once the granted time has reached the requested
\* time; while the granted time is less, the same request stands and nothing
\* is read, nothing is published and the tick does not advance.
C7_LockStepHandshake ==
    /\ [](/\ pc = "sync_t" => requested_time = t
          /\ pc = "sync_t1" => requested_time = t + 1)
    /\ [][/\ (InSyncTime /\ (pc' # pc \/ t' # t))
                => granted_time >= requested_time
          /\ (InSyncTime /\ granted_time < requested_time)
                => /\ pc' = pc
                   /\ t' = t
                   /\ requested_time' = requested_time
                   /\ received_message' = received_message
                   /\ published' = published]_vars

\* a lesser grant has been received for the request of the second tick
C7_Witness ==
    /\ pc = "sync_t"
    /\ t = time_bin_in_seconds
    /\ granted_time >= 0
    /\ granted_time < requested_time

\* C8: a controller's run that raises never ends the loop.
C8_ControllerFailureIsolated == exc # "ControllerFailure"

IsMalformed(m) == m.raw = "not json"

IncorrectJsonError == "Message from BEAM is an incorrect JSON"

\* C9: for a non-blank message that is not JSON, the parse error is logged,
\* no controller is created or run, "[]" is published and the iteration ends
\* normally.
C9_MalformedJsonRecovery ==
    /\ [](IsMalformed(received_message) =>
            /\ pc \in {"handle", "publish", "sync_t1"}
            /\ exc = "none"
            /\ run_calls = <<>>
            /\ pc \in {"publish", "sync_t1"} => err_log = <<IncorrectJsonError>>
            /\ pc = "publish" => power_commands_list = <<>>
            /\ pc = "sync_t1" => published = <<"[]">>)
    /\ [][IsMalformed(received_message) =>
            /\ DOMAIN default_spm_c_dict' = DOMAIN default_spm_c_dict
            /\ DOMAIN ride_hail_spm_c_dict' = DOMAIN ride_hail_spm_c_dict
            /\ \A u \in DOMAIN threads' :
                  u \in DOMAIN threads /\ threads'[u] <= threads[u]
            /\ ~multi_threaded_run =>
                  /\ default_spm_c_dict' = default_spm_c_dict
                  /\ ride_hail_spm_c_dict' = ride_hail_spm_c_dict
            /\ pc' \in {"handle", "publish", "sync_t1", "sync_t", "disconnect"}]_vars

\* the reply to a malformed message of the second tick is out and the bus
\* has granted t + 1: the loop is about to go on
C9_Witness ==
    /\ IsMalformed(received_message)
    /\ t = time_bin_in_seconds
    /\ pc = "sync_t1"
    /\ published = <<"[]">>
    /\ err_log = <<IncorrectJsonError>>
    /\ DOMAIN default_spm_c_dict # {}
    /\ granted_time >= requested_time

IsNonArrayJson(m) == m.raw = "json" /\ m.value.type # "list"

\* C10: for a message that is JSON but not an array, no exception escapes,
\* no site is routed, an error is reported and "[]" is published.
C10_NonArrayJsonHandled ==
    IsNonArrayJson(received_message) =>
        /\ pc # "crashed"
        /\ run_calls = <<>>
        /\ pc \in {"publish", "sync_t1"} => err_log # <<>>
        /\ pc = "sync_t1" => published = <<"[]">>

\* the message of the iteration has been read
MessageRead == pc \in {"handle", "route", "aggregate", "publish", "sync_t1", "crashed"}

IsBlank(m) == m.raw \in {"empty", "whitespace"}

\* C11: for an empty or whitespace-only message nothing is logged by
\* print_err, no controller is run, no exception escapes, and "[]" is
\* published.
C11_BlankInputIsNotAnError ==
    (MessageRead /\ IsBlank(received_message)) =>
        /\ pc \in {"handle", "publish", "sync_t1"}
        /\ err_log = <<>>
        /\ exc = "none"
        /\ run_calls = <<>>
        /\ pc = "sync_t1" => published = <<"[]">>

\* a whitespace-only message of the second tick has been answered
C11_Witness ==
    /\ received_message = [raw |-> "whitespace"]
    /\ t = time_bin_in_seconds
    /\ pc = "sync_t1"
    /\ published = <<"[]">>
    /\ err_log = <<>>

\* the for loop at line 101 is over in this iteration, by its end or by an
\* exception
RoutingOver == IsBatch /\ pc \in {"aggregate", "publish", "sync_t1", "crashed"}

EventsOfCall(i) == {run_calls[i].events[j] : j \in DOMAIN run_calls[i].events}

NoVehiclelessEventPassed ==
    \A i \in DOMAIN run_calls : \A e \in EventsOfCall(i) : HasVehicleId(e)

EveryVehicleEventPassed ==
    \A k \in DOMAIN Batch :
        LET e == Batch[k] IN
        ("siteId" \in DOMAIN e /\ HasVehicleId(e)) =>
            \E i \in CallsOfSite(e.siteId) : e \in EventsOfCall(i)

\* C12: in both modes no event without a vehicleId is in a list passed to
\* run or run_as_thread, and once the routing of a batch is over every event
\* of the batch that has a vehicleId has been passed to the controller of its
\* site.
C12_Filtering ==
    /\ NoVehiclelessEventPassed
    /\ RoutingOver => EveryVehicleEventPassed

\* the same, for the iterations whose routing ends without an exception
C12_FilteringWhenNothingRaises ==
    /\ NoVehiclelessEventPassed
    /\ Routed => EveryVehicleEventPassed

\* the variant the classification rule gives each identifier of the model
ExpectedVariant(s) ==
    CASE s = S1 -> "default"
      [] s = Depot1 -> "ride_hail"
      [] s = XDepot -> "default"
      [] s = DepotUpper -> "ride_hail"

DictOfVariant(variant) ==
    IF variant = "ride_hail" THEN ride_hail_spm_c_dict ELSE default_spm_c_dict

OtherVariant(variant) == IF variant = "ride_hail" THEN "default" ELSE "ride_hail"

\* every run is a run of the variant the rule gives the site
RunsExpectedVariant ==
    \A i \in DOMAIN run_calls :
        run_calls[i].variant = ExpectedVariant(run_calls[i].siteId)

\* the instance of the other variant has never run
OtherVariantNeverRuns ==
    \A s \in DOMAIN default_spm_c_dict \cap DOMAIN ride_hail_spm_c_dict :
        DictOfVariant(OtherVariant(ExpectedVariant(s)))[s].output = <<>>

\* the output read for a site is the output of the instance of the expected
\* variant, which in sequential mode is the one this tick's run has written
ReadsExpectedVariant ==
    agg_rest' # agg_rest /\ pc = "aggregate" =>
        LET s == Head(agg_rest) IN
        /\ power_commands_list' =
               power_commands_list \o DictOfVariant(ExpectedVariant(s))[s].output
        /\ ~multi_threaded_run =>
               power_commands_list' =
                   power_commands_list \o <<[siteId |-> s, t |-> t]>>

\* C13: a site is run as, and read as, the depot variant when its lowercased
\* identifier starts with "depot" and as the default variant otherwise, also
\* when it holds "depot" past its start; the instance read is the one run.
C13_ClassificationConsistent ==
    /\ [](RunsExpectedVariant /\ OtherVariantNeverRuns)
    /\ [][ReadsExpectedVariant]_vars

\* both an upper-case depot and a site holding the prefix past its start have
\* been run and read in one tick
C13_Witness ==
    /\ pc = "publish"
    /\ \E i, j \in DOMAIN run_calls :
          /\ run_calls[i].siteId = XDepot /\ run_calls[i].variant = "default"
          /\ run_calls[j].siteId = DepotUpper /\ run_calls[j].variant = "ride_hail"
    /\ Len(power_commands_list) = 2

\* from d to e no entry is removed, and an entry changes only by a run of
\* the instance it holds
EntriesKept(d, e) ==
    \A s \in DOMAIN d :
        /\ s \in DOMAIN e
        /\ \/ e[s] = d[s]
           \/ \E tick \in 0..t : e[s] = ControllerRun(d[s], s, tick)

\* init_spm_controllers for a site that is present leaves both dicts as they
\* are, whatever else the step does to other variables
SkippedGroupOfKnownSite ==
    /\ pc = "route"
    /\ groups_rest' # groups_rest \/ pc' = "crashed"
    /\ run_calls' = run_calls
    /\ ~KeyFuncRaises(Head(groups_rest))
    /\ CurSite \in DOMAIN default_spm_c_dict \cap DOMAIN ride_hail_spm_c_dict

\* C14: no step removes an entry of either dict or replaces the instance it
\* holds: an entry changes only when its own instance runs, and
\* init_spm_controllers for a site already present changes nothing.
C14_RegistryPersistence ==
    [][/\ EntriesKept(default_spm_c_dict, default_spm_c_dict')
       /\ EntriesKept(ride_hail_spm_c_dict, ride_hail_spm_c_dict')
       /\ SkippedGroupOfKnownSite =>
              UNCHANGED <<default_spm_c_dict, ride_hail_spm_c_dict>>]_vars

\* S1 was run in the first tick; in the second tick its group has no
\* vehicleId, so init_spm_controllers was called for it again and nothing
\* else: the instance still has its output of the first tick
C14_Witness ==
    /\ t = time_bin_in_seconds
    /\ pc = "publish"
    /\ IsBatch /\ Batch = <<[siteId |-> S1]>>
    /\ S1 \in DOMAIN default_spm_c_dict
    /\ default_spm_c_dict[S1].output = <<[siteId |-> S1, t |-> 0]>>

\* C15: a site has an instance in exactly one of the two dicts, the one of
\* the variant its identifier is classified as.
C15_OneControllerPerSite ==
    \A s \in DOMAIN default_spm_c_dict \cup DOMAIN ride_hail_spm_c_dict :
        /\ s \in DOMAIN DictOfVariant(ExpectedVariant(s))
        /\ s \notin DOMAIN DictOfVariant(OtherVariant(ExpectedVariant(s)))

\* 0, step, 2*step, ... strictly below simulated_day_in_seconds - step
TickSet ==
    {x \in 0..(simulated_day_in_seconds - time_bin_in_seconds - 1) :
        x % time_bin_in_seconds = 0}

LoopLeft == pc \in {"disconnect", "free", "finished"}

\* C16: t is always one of 0, step, 2*step, ... below
\* simulated_day_in_seconds - step and only t and t + 1 are requested from
\* the bus; t moves by one step at a time, after the one publish of its
\* iteration; an iteration starts once per value of t; and the loop is left
\* only after the last of these ticks.
C16_TickProgression ==
    /\ [](t \in TickSet /\ requested_time \in {t, t + 1})
    /\ [](LoopLeft => (t + time_bin_in_seconds) \notin TickSet)
    /\ [][/\ t' # t =>
                /\ t' = t + time_bin_in_seconds
                /\ pc = "sync_t1" /\ pc' = "sync_t"
                /\ Len(published) = 1
          /\ (pc = "receive" /\ pc' # "receive") =>
                /\ requested_time = t
                /\ published = <<>> /\ run_calls = <<>>
          /\ published' # published =>
                \/ published' = <<>> /\ t' # t
                \/ LoopLeft' /\ published' = <<>>
                \/ published = <<>> /\ Len(published') = 1 /\ t' = t]_vars

\* the loop has run for every tick and the federate has shut down
C16_Witness ==
    /\ pc = "finished"
    /\ t > 0
    /\ (t + time_bin_in_seconds) \notin TickSet

AfterDisconnect == pc \in {"free", "finished"}

\* C17: with a bus that in the end grants every requested time, a run in
\* which no exception leaves the loop reaches the end of
\* run_spm_federate; helicsFederateDisconnect and helicsFederateFree are
\* each called once, in this order, and after the disconnect no time is
\* requested, no message is read and nothing is published.
C17_TerminationIntoShutdown ==
    /\ [](exc = "none") => <>(pc = "finished")
    /\ [][/\ pc' = "free" => pc \in {"disconnect", "free"}
          /\ pc' = "finished" => pc \in {"free", "finished"}
          /\ pc = "free" => pc' \in {"free", "finished"}
          /\ pc = "finished" => pc' = "finished"
          /\ AfterDisconnect =>
                UNCHANGED <<t, requested_time, granted_time, received_message,
                            published, out_csv>>]_vars

\* the loop has run for every tick and the federate has shut down
C17_Witness ==
    /\ pc = "finished"
    /\ exc = "none"
    /\ t = (MaxTicks - 1) * time_bin_in_seconds

\* C18: the federate is not for ever in sync_time with a granted time below
\* the requested one.
C18_BusViolationTerminates ==
    []<>(~(InSyncTime /\ granted_time < requested_time))

\* the step is line 122 of an iteration
PublishStep == Len(published') = Len(published) + 1

HasRecordWithoutSiteId ==
    IsBatch /\ \E k \in DOMAIN Batch : "siteId" \notin DOMAIN Batch[k]

\* C20: a batch with a record that has no siteId raises no KeyError; its
\* other records are passed to their controllers and its reply is published.
C20_MissingSiteIdFiltered ==
    (MessageRead /\ HasRecordWithoutSiteId) =>
        /\ exc # "KeyError"
        /\ RoutingOver => EveryVehicleEventPassed
        /\ pc = "sync_t1" => Len(published) = 1

====
